---- MODULE Spec2Model ----
(***************************************************************************)
(* A model of MusicComposer.py: the Note and Bar constructors and          *)
(* Composition.convertToWaveData.                                          *)
(*                                                                         *)
(* Numbers.  Durations are counted in ticks of 1/TicksPerWhole of a whole  *)
(* note, and every tempo of the model gives a power-of-two number of beats *)
(* per second, so each float the code computes from them is a dyadic       *)
(* rational that IEEE doubles hold exactly; the integer arithmetic below   *)
(* is then the code's arithmetic.  Accidentals (sign) are counted in half  *)
(* semitones, so that the quarter tones of Sign are integers.              *)
(*                                                                         *)
(* Enumerations.  A note stores the NAME of its Tone / Dynamic member and  *)
(* arithmetic uses the member's value, as the program does when the enum   *)
(* members are plain numbers.                                              *)
(*                                                                         *)
(* Language.  The program is Python 2 (xrange): int/int is floor division  *)
(* and int(float) truncates toward zero.                                   *)
(*                                                                         *)
(* Sine.  math.sin and math.pow are irrational-valued; Sine and Frequency  *)
(* compute them to a fixed resolution, so a pitched sample of the model    *)
(* approximates the program's.  Frame counts, fade lengths, envelope       *)
(* factors and the samples of rests are exact.                             *)
(***************************************************************************)
EXTENDS Integers, Sequences, FiniteSets

VARIABLES
    rawNotes,   \* the Note objects built so far, the list handed to Bar(...)
    barArgs,    \* the arguments of the Bar(...) call that was made, or NoCall
    bar,        \* the Bar object that call constructed, or NoBar
    err,        \* the exception that ended the program, or "none"
    bars,       \* Composition.bars
    bpm,        \* Composition.bpm
    bitRate,    \* the bitRate argument of convertToWaveData
    waveData,   \* the list convertToWaveData returned
    pc          \* "build" | "built" | "score" | "done"

vars == <<rawNotes, barArgs, bar, err, bars, bpm, bitRate, waveData, pc>>

----------------------------------------------------------------------------
(* Bounds and program constants *)

\* d = 1.0/16 is the duration unit of the program's score
TicksPerWhole == 16

\* longest list of notes handed to one Bar(...) call
MaxNotes == 3

\* most bars of a composition
MaxBars == 2

\* most notes given to each bar of a composition
MaxBarNotes == 1

Concert == 440

\* frame += 128
Midpoint == 128

\* a rest rendered one step below the midpoint
RestFrameBelow == Midpoint - 1

\* chr(128), the frame of a rest
RestFrame == 128

MaxChr == 255

DefaultBitRate == 44100

Tone == [C |-> 0, D |-> 2, E |-> 4, F |-> 5, G |-> 7, A |-> 9, B |-> 11]

\* in half semitones: HalfFlat = -0.5 is -1 here
Sign == [DoubleFlat |-> -4, Flat |-> -2, HalfFlat |-> -1,
         HalfSharp |-> 1, Sharp |-> 2, DoubleSharp |-> 4]

Dynamic == [ppp |-> 16, pp |-> 33, p |-> 49, mp |-> 64,
            mf |-> 80, f |-> 96, ff |-> 112, fff |-> 126]

NoBar == [none |-> TRUE]

NoCall == [none |-> TRUE]

----------------------------------------------------------------------------
(* Arithmetic *)

\* int(n/d) for d > 0: Python's int() truncates toward zero
Trunc(n, d) == IF n >= 0 THEN n \div d ELSE -((-n) \div d)

----------------------------------------------------------------------------
(* class Note *)

\* Note.__init__: stores its arguments; no argument is validated
Note(duration, tone, octave, sign, dynamic) ==
    [duration |-> duration, tone |-> tone, octave |-> octave,
     sign |-> sign, dynamic |-> dynamic]

\* Note(duration): tone=None, octave=0, sign=0, dynamic=Dynamic.mf
RestNote(duration) == Note(duration, "None", 0, 0, "mf")

\* attribute lookup on an object: AttributeError when the attribute is unset
HasAttr(obj, name) == name \in DOMAIN obj

\* octave*12 + tone + sign, in half semitones
SemitoneExponent2(note) ==
    2 * (note.octave * 12 + Tone[note.tone]) + note.sign

----------------------------------------------------------------------------
(* class Bar *)

BarTotalDuration(numberOfBeats, divisor) ==
    (numberOfBeats * TicksPerWhole) \div divisor

\* The argument list of the Note(...) call that builds the clipped note:
\* Note(barTotalDuration-notesTotalDuration, note.pitch, note.dynamic).
\* note.pitch is looked up before Note is entered.
ClipArgsOk(note) == HasAttr(note, "pitch") /\ HasAttr(note, "dynamic")

\* the loop of Bar.__init__ from input index i on; acc is self.notes and
\* total is notesTotalDuration
RECURSIVE BarLoop(_, _, _, _, _)
BarLoop(notes, i, acc, total, barTotal) ==
    IF i > Len(notes)
    THEN [notes |-> acc, total |-> total, err |-> "none"]
    ELSE LET note == notes[i] IN
         IF total + note.duration > barTotal
         THEN IF ~ClipArgsOk(note)
              THEN [notes |-> acc, total |-> total, err |-> "AttributeError"]
              ELSE LET clippedNote ==
                         Note(barTotal - total, note.pitch,
                              Dynamic[note.dynamic], 0, "mf")
                   IN IF clippedNote.duration > 0
                      THEN [notes |-> Append(acc, clippedNote),
                            total |-> total + clippedNote.duration,
                            err |-> "none"]
                      ELSE [notes |-> acc, total |-> total, err |-> "none"]
         ELSE BarLoop(notes, i + 1, Append(acc, note),
                      total + note.duration, barTotal)

\* pads a bar that is already full as well
PadNotesWhenFull(ns, total, barTotal) ==
    IF total <= barTotal THEN Append(ns, RestNote(barTotal - total)) ELSE ns

\* the padding rest appended after the loop
PadNotes(ns, total, barTotal) ==
    IF total < barTotal THEN Append(ns, RestNote(barTotal - total)) ELSE ns

\* Bar.__init__: the constructed object, or the exception raised
BarInit(notes, numberOfBeats, divisor) ==
    LET barTotal == BarTotalDuration(numberOfBeats, divisor)
        loop == BarLoop(notes, 1, <<>>, 0, barTotal)
    IN IF loop.err # "none"
       THEN [err |-> loop.err, bar |-> NoBar]
       ELSE [err |-> "none",
             bar |-> [numberOfBeats |-> numberOfBeats,
                      divisor |-> divisor,
                      notes |-> PadNotes(loop.notes, loop.total, barTotal)]]

----------------------------------------------------------------------------
(* The score-building program: Note(...) calls, then one Bar(...) call *)

\* durations passed to Note, in ticks: negative, zero and positive
Durations == {-4, 0, 4, 8, 16}

\* (tone, octave, sign, dynamic) passed to Note
Voices == {<<"None", 0, 0, "mf">>, <<"A", 0, 0, "f">>, <<"D", 0, 2, "p">>}

\* (numberOfBeats, divisor) passed to Bar
TimeSignatures == {<<4, 4>>, <<3, 4>>, <<3, 8>>}

NewNote(d, v) ==
    /\ pc = "build"
    /\ Len(rawNotes) < MaxNotes
    /\ rawNotes' = Append(rawNotes, Note(d, v[1], v[2], v[3], v[4]))
    /\ UNCHANGED <<barArgs, bar, err, bars, bpm, bitRate, waveData, pc>>

NewBar(numberOfBeats, divisor) ==
    /\ pc = "build"
    /\ LET r == BarInit(rawNotes, numberOfBeats, divisor) IN
         /\ bar' = r.bar
         /\ err' = r.err
    /\ barArgs' = [notes |-> rawNotes, numberOfBeats |-> numberOfBeats,
                   divisor |-> divisor]
    /\ pc' = "built"
    /\ UNCHANGED <<rawNotes, bars, bpm, bitRate, waveData>>

Init ==
    /\ rawNotes = <<>>
    /\ barArgs = NoCall
    /\ bar = NoBar
    /\ err = "none"
    /\ bars = <<>>
    /\ bpm = 120
    /\ bitRate = DefaultBitRate
    /\ waveData = <<>>
    /\ pc = "build"

Next ==
    \/ \E d \in Durations, v \in Voices : NewNote(d, v)
    \/ \E ts \in TimeSignatures : NewBar(ts[1], ts[2])

Spec == Init /\ [][Next]_vars

----------------------------------------------------------------------------
(* Note.frequency *)

\* round(1000 * 2^(k/24)) for k = 0..23: math.pow(2, octaves) to 3 decimals
Pow2Table ==
    <<1000, 1029, 1059, 1091, 1122, 1155, 1189, 1224, 1260, 1297, 1335, 1374,
      1414, 1456, 1498, 1542, 1587, 1634, 1682, 1731, 1782, 1834, 1888, 1943>>

\* 440*math.pow(2, octaves) in tenths of a hertz, octaves being
\* SemitoneExponent2/24; only called when the note has a tone
Frequency(note) ==
    LET q == SemitoneExponent2(note)
        whole == q \div 24
        part == q % 24
        base == (Concert * Pow2Table[part + 1]) \div 100
    IN IF whole >= 0 THEN base * (2 ^ whole) ELSE base \div (2 ^ (-whole))

----------------------------------------------------------------------------
(* Composition.convertToWaveData *)

\* steps of the sine's argument per half turn
HalfTurn == 16

\* the frame count rounded to the nearest whole number
NumberOfFramesRounded(rate, divisor, duration, tempo) ==
    Trunc(2 * rate * divisor * duration * 60 + TicksPerWhole * tempo,
          2 * TicksPerWhole * tempo)

\* int(bitRate*duration), duration = bar.divisor*note.duration/bps and
\* bps = bpm/60
NumberOfFrames(rate, divisor, duration, tempo) ==
    Trunc(rate * divisor * duration * 60, TicksPerWhole * tempo)

\* the fade length without the clamp to the note's length
FadingFramesUnclamped(rate, numberOfFrames) == Trunc(rate, 100)

\* fadingFrames = int(0.01*bitRate), lowered to numberOfFrames
FadingFrames(rate, numberOfFrames) ==
    LET fadingFrames == Trunc(rate, 100)
    IN IF fadingFrames > numberOfFrames THEN numberOfFrames ELSE fadingFrames

\* Python 2 integer division
FadeInFrames(fadingFrames) == fadingFrames \div 2

FadeOutFrames(fadingFrames) == (fadingFrames + 1) \div 2

\* which branch of the envelope sample x takes
Region(x, numberOfFrames, fadeInFrames, fadeOutFrames) ==
    IF x < fadeInFrames THEN "in"
    ELSE IF x >= numberOfFrames - fadeOutFrames THEN "out"
    ELSE "full"

\* the factor besides amplitude that frame is multiplied by, as <<num, den>>:
\* x_f/fadeInFrames, 1-x_f/fadeOutFrames, or 1.  den = 0 is a division by zero.
Envelope(x, numberOfFrames, fadeInFrames, fadeOutFrames) ==
    LET region == Region(x, numberOfFrames, fadeInFrames, fadeOutFrames)
    IN IF region = "in" THEN <<x, fadeInFrames>>
       ELSE IF region = "out"
            THEN <<fadeOutFrames - (x - (numberOfFrames - fadeOutFrames)),
                   fadeOutFrames>>
            ELSE <<1, 1>>

\* math.sin(x_f/bitRate*frequency*TWO_PI) as <<num, den>>: the argument is
\* cut to 2*HalfTurn steps per turn and the sine of a half turn taken by
\* Bhaskara's rational approximation 16t(1-t)/(5-4t(1-t)), t in [0,1]
Sine(x, rate, frequency) ==
    LET step == ((x * frequency * 2 * HalfTurn) \div (10 * rate)) % (2 * HalfTurn)
        t == IF step < HalfTurn THEN step ELSE step - HalfTurn
        sgn == IF step < HalfTurn THEN 1 ELSE -1
    IN <<sgn * 16 * t * (HalfTurn - t),
         5 * HalfTurn * HalfTurn - 4 * t * (HalfTurn - t)>>

\* the frame without the shift to the midpoint
QuantizeUnshifted(sine, envelope, amplitude) ==
    Trunc(sine[1] * envelope[1] * amplitude, sine[2] * envelope[2])

\* int(frame) after frame = sine*envelope*amplitude + 128
Quantize(sine, envelope, amplitude) ==
    LET den == sine[2] * envelope[2]
    IN Trunc(sine[1] * envelope[1] * amplitude + Midpoint * den, den)

\* chr(v): ValueError unless v is in range(256)
ChrOk(v) == v >= 0 /\ v <= MaxChr

\* the chunk of one note: the frames chr() accepted, in order
Chunk(note, divisor, tempo, rate) ==
    LET numberOfFrames == NumberOfFrames(rate, divisor, note.duration, tempo)
        count == IF numberOfFrames > 0 THEN numberOfFrames ELSE 0
    IN IF note.tone = "None"
       THEN [x \in 1..count |-> RestFrame]
       ELSE LET fadingFrames == FadingFrames(rate, numberOfFrames)
                fadeInFrames == FadeInFrames(fadingFrames)
                fadeOutFrames == FadeOutFrames(fadingFrames)
                frequency == Frequency(note)
            IN [x \in 1..count |->
                  Quantize(Sine(x - 1, rate, frequency),
                           Envelope(x - 1, numberOfFrames, fadeInFrames,
                                    fadeOutFrames),
                           Dynamic[note.dynamic])]

\* the inner loop: for note in bar.notes
RECURSIVE BarChunks(_, _, _, _, _)
BarChunks(b, i, tempo, rate, out) ==
    IF i > Len(b.notes) THEN out
    ELSE BarChunks(b, i + 1, tempo, rate,
                   Append(out, Chunk(b.notes[i], b.divisor, tempo, rate)))

\* each bar's chunks put in front of those of the bars before it
RECURSIVE ScoreChunksBarsReversed(_, _, _, _, _)
ScoreChunksBarsReversed(bs, j, tempo, rate, out) ==
    IF j > Len(bs) THEN out
    ELSE ScoreChunksBarsReversed(bs, j + 1, tempo, rate,
                                 BarChunks(bs[j], 1, tempo, rate, <<>>) \o out)

\* the outer loop: for bar in self.bars
RECURSIVE ScoreChunks(_, _, _, _, _)
ScoreChunks(bs, j, tempo, rate, out) ==
    IF j > Len(bs) THEN out
    ELSE ScoreChunks(bs, j + 1, tempo, rate,
                     BarChunks(bs[j], 1, tempo, rate, out))

ConvertToWaveData(bs, tempo, rate) == ScoreChunks(bs, 1, tempo, rate, <<>>)

\* every frame of every chunk was accepted by chr()
AllChrOk(data) ==
    \A i \in 1..Len(data) : \A x \in 1..Len(data[i]) : ChrOk(data[i][x])

----------------------------------------------------------------------------
(* The rendering program: a Composition of constructed bars, converted once *)

\* notes of the scores: (duration, tone, octave, sign, dynamic)
ScoreNotes ==
    {Note(1, "A", 0, 0, "fff"), Note(2, "D", 0, 2, "p"), RestNote(1)}

\* (numberOfBeats, divisor, bpm, bitRate)
Settings == {<<1, 4, 240, 400>>, <<1, 1, 480, 500>>, <<2, 2, 120, 500>>}

RECURSIVE SeqsUpTo(_, _)
SeqsUpTo(S, n) ==
    IF n = 0 THEN {<<>>}
    ELSE LET shorter == SeqsUpTo(S, n - 1)
         IN shorter \cup {Append(s, e) : s \in shorter, e \in S}

\* the bars Bar(notes, beats, divisor) constructs from the score notes
BarsOf(numberOfBeats, divisor) ==
    LET made == {BarInit(ns, numberOfBeats, divisor) :
                    ns \in SeqsUpTo(ScoreNotes, MaxBarNotes)}
    IN {r.bar : r \in {m \in made : m.err = "none"}}

InitScore ==
    /\ rawNotes = <<>>
    /\ barArgs = NoCall
    /\ bar = NoBar
    /\ err = "none"
    /\ waveData = <<>>
    /\ pc = "score"
    /\ \/ \E st \in Settings :
            /\ bars \in SeqsUpTo(BarsOf(st[1], st[2]), MaxBars) \ {<<>>}
            /\ bpm = st[3]
            /\ bitRate = st[4]
       \/ \* one 4/4 bar holding a whole rest, at the default bit rate
          /\ bars = <<BarInit(<<RestNote(TicksPerWhole)>>, 4, 4).bar>>
          /\ bpm = 120
          /\ bitRate = DefaultBitRate

Convert ==
    /\ pc = "score"
    /\ LET data == ConvertToWaveData(bars, bpm, bitRate) IN
         IF AllChrOk(data)
         THEN waveData' = data /\ err' = "none"
         ELSE waveData' = <<>> /\ err' = "ValueError"
    /\ pc' = "done"
    /\ UNCHANGED <<rawNotes, barArgs, bar, bars, bpm, bitRate>>

SpecWave == InitScore /\ [][Convert]_vars

----------------------------------------------------------------------------
(* Properties of the Bar constructor, checked under Spec *)

BarCalled == pc = "built"

BarBuilt == BarCalled /\ err = "none" /\ bar # NoBar

ArgNotes == barArgs.notes

ArgTotal == BarTotalDuration(barArgs.numberOfBeats, barArgs.divisor)

\* the sum of the durations of a list of notes
RECURSIVE SumDurations(_)
SumDurations(ns) ==
    IF ns = <<>> THEN 0 ELSE ns[1].duration + SumDurations(Tail(ns))

InputsPositive == \A i \in 1..Len(ArgNotes) : ArgNotes[i].duration > 0

PrefixSum(ns, k) == SumDurations(SubSeq(ns, 1, k))

Overflows == \E k \in 1..Len(ArgNotes) : PrefixSum(ArgNotes, k) > ArgTotal

\* the first k whose prefix sum exceeds the bar
FirstOver ==
    CHOOSE k \in 1..Len(ArgNotes) :
        /\ PrefixSum(ArgNotes, k) > ArgTotal
        /\ \A h \in 1..(k - 1) : PrefixSum(ArgNotes, h) <= ArgTotal

\* C1: for every list of positive-duration notes (empty, short, exact or
\* overflowing) the Bar(...) call completes and the durations of bar.notes
\* sum to beats/divisor.
C1_BarSumsToTimeSignature ==
    (BarCalled /\ InputsPositive) =>
        /\ BarBuilt
        /\ SumDurations(bar.notes) = ArgTotal

\* C2: when the running sum first exceeds the bar at note k, the bar is the
\* first k-1 notes, then note k clipped to the remaining duration with its
\* tone, octave, sign and dynamic kept (no clipped note when nothing
\* remains), and nothing else.
C2_OverflowIsClipped ==
    (BarCalled /\ InputsPositive /\ Overflows) =>
        LET k == FirstOver
            remaining == ArgTotal - PrefixSum(ArgNotes, k - 1)
            clipped == [ArgNotes[k] EXCEPT !.duration = remaining]
        IN /\ BarBuilt
           /\ bar.notes = SubSeq(ArgNotes, 1, k - 1) \o
                          (IF remaining > 0 THEN <<clipped>> ELSE <<>>)

\* C3: input durations (none of them negative) that sum to less than
\* beats/divisor give the input notes, unchanged and in order, followed by
\* exactly one rest of the missing duration (the empty input gives one rest
\* of the whole bar); input durations that sum to exactly beats/divisor give
\* the input notes and nothing else.
C3_ShortBarIsPaddedExactBarIsKept ==
    (BarCalled /\ \A i \in 1..Len(ArgNotes) : ArgNotes[i].duration >= 0) =>
        LET sum == SumDurations(ArgNotes) IN
        /\ sum < ArgTotal =>
              /\ BarBuilt
              /\ Len(bar.notes) = Len(ArgNotes) + 1
              /\ SubSeq(bar.notes, 1, Len(ArgNotes)) = ArgNotes
              /\ bar.notes[Len(bar.notes)].tone = "None"
              /\ bar.notes[Len(bar.notes)].duration = ArgTotal - sum
        /\ sum = ArgTotal =>
              /\ BarBuilt
              /\ bar.notes = ArgNotes

\* two positive notes that leave room in the bar, padded by a rest
C3_Witness ==
    /\ BarBuilt
    /\ InputsPositive
    /\ Len(ArgNotes) = 2
    /\ SumDurations(ArgNotes) < ArgTotal
    /\ Len(bar.notes) = 3

\* C5: the note of tone A, octave 0 and no accidental has semitone exponent
\* 0 and frequency 440 Hz.
C5_ReferencePitchIsA ==
    \A i \in 1..Len(rawNotes) :
        (rawNotes[i].tone = "A" /\ rawNotes[i].octave = 0 /\ rawNotes[i].sign = 0)
            => /\ SemitoneExponent2(rawNotes[i]) = 0
               /\ Frequency(rawNotes[i]) = 10 * Concert

\* C6: Note(...) with a duration <= 0 fails with InvalidDuration, so no note
\* of non-positive duration is ever built or held by a bar.
C6_NoNonPositiveDuration ==
    /\ \A i \in 1..Len(rawNotes) : rawNotes[i].duration > 0
    /\ BarBuilt => \A i \in 1..Len(bar.notes) : bar.notes[i].duration > 0

----------------------------------------------------------------------------
(* Properties of convertToWaveData, checked under SpecWave *)

Converted == pc = "done"

\* (bar index, note index) of every note of the composition
Positions ==
    UNION {{<<j, i>> : i \in 1..Len(bars[j].notes)} : j \in 1..Len(bars)}

\* number of notes in the bars before bar j
RECURSIVE NotesBefore(_)
NotesBefore(j) == IF j <= 1 THEN 0 ELSE NotesBefore(j - 1) + Len(bars[j - 1].notes)

\* the place in score order of note i of bar j
ScoreIndex(pos) == NotesBefore(pos[1]) + pos[2]

NoteAt(pos) == bars[pos[1]].notes[pos[2]]

\* bitRate*duration as <<num, den>>, den > 0
ExactFrames(pos) ==
    <<bitRate * bars[pos[1]].divisor * NoteAt(pos).duration * 60,
      TicksPerWhole * bpm>>

FramesAt(pos) ==
    NumberOfFrames(bitRate, bars[pos[1]].divisor, NoteAt(pos).duration, bpm)

IsWholeRestScenario ==
    /\ bitRate = DefaultBitRate
    /\ bpm = 120
    /\ Len(bars) = 1
    /\ bars[1].numberOfBeats = 4 /\ bars[1].divisor = 4
    /\ bars[1].notes = <<RestNote(TicksPerWhole)>>

\* C8: the buffer of a note without a tone is 128 at every sample, over its
\* whole frame count; the 4/4 bar with one whole rest at 120 BPM and 44100
\* samples per second gives one buffer of 88200 samples, all 128.
C8_RestIsMidpoint ==
    Converted =>
        /\ \A pos \in Positions :
              NoteAt(pos).tone = "None" =>
                  waveData[ScoreIndex(pos)] = [x \in 1..FramesAt(pos) |-> 128]
        /\ IsWholeRestScenario =>
              /\ Len(waveData) = 1
              /\ waveData[1] = [x \in 1..88200 |-> 128]

C8_Witness ==
    /\ Converted
    /\ IsWholeRestScenario
    /\ Len(waveData[1]) = 88200

\* sine values -1, ..., 0, ..., 1 in steps of 1/SineSteps
SineSteps == 2

SineGrid == {<<s, SineSteps>> : s \in (-SineSteps)..SineSteps}

PitchedPositions == {pos \in Positions : NoteAt(pos).tone # "None"}

EnvelopeAt(pos, x) ==
    LET n == FramesAt(pos)
        fading == FadingFrames(bitRate, n)
    IN Envelope(x, n, FadeInFrames(fading), FadeOutFrames(fading))

====
